---- MODULE Spec2Model ----
(***************************************************************************)
(* Model of src/src/App.jsx: the background-music playlist sequencer       *)
(* (startPlaylist / playTrackInQueue / stopBgm / handleStopClick), the     *)
(* ducking effect and the narrator (handleNarrate / playAudioFromBase64).  *)
(*                                                                         *)
(* React semantics used by the model:                                      *)
(*  - a handler runs to completion; the state updates it issued are then   *)
(*    rendered and the effects whose dependencies changed run, all before  *)
(*    the next event is handled.  One action = handler + render + effects. *)
(*  - the functions of a render close over that render's state values: the *)
(*    currentBgmCategory read inside playTrackInQueue is the value of the  *)
(*    render that defined the function, not the value just set.            *)
(* Howler semantics used by the model:                                     *)
(*  - when a sound ends, each registered 'end' listener is queued on the   *)
(*    event loop; off('end') removes listeners but not a queued call.      *)
(* Volumes are in tenths (1.0 = 10, 0.2 = 2).  A channel records the last  *)
(* fade issued on it as (from, tgt); volume() read while that fade is in   *)
(* flight is any level between the two.  What the program can no longer    *)
(* reach is not kept: the closure of a listener that was removed or can    *)
(* never fire again, the fade of a channel that is no longer referenced    *)
(* and has stopped or is being faded out, the source of an unloaded Howl.  *)
(***************************************************************************)
EXTENDS Integers, Sequences, FiniteSets, TLC

\* ---------------------------------------------------------------- bounds
MaxChannels == 3      \* music Howl instances created in one run (SpecBgm)
MaxDuckChannels == 2  \* the same, where the narrator runs too (SpecDuck)
MaxNarr == 2          \* narrator Howl instances created in one run

\* ----------------------------------------------------------- configuration
NoCat == "none"       \* currentBgmCategory === null
NoCh == 0             \* bgmRef.current === null / narratorRef.current === null

Known == {"battle", "thrill", "serene"}
Categories == Known \cup {"unknown"}

ASSETS(c) ==
  CASE c = "battle" -> <<"battle1", "battle2">>
    [] c = "thrill" -> <<"thrill_theme">>
    [] c = "serene" -> <<"rain", "wind">>
    [] OTHER -> <<>>

FullVol == 10
DuckVol == 2
VolLevels == {0, DuckVol, 6, FullVol}

Keys == {"", "key"}
Texts == {"", "text"}

\* ------------------------------------------------------------------ state
VARIABLES
  currentBgmCategory,  \* useState(null)
  bgmRef,              \* index into channels, NoCh for null
  queueRef,            \* the fixed shuffled order
  queueIndexRef,       \* 0-based cursor
  channels,            \* every music Howl created so far
  isSpeaking,
  isLoadingTTS,
  apiKey,
  narratorText,
  fetch,               \* "none" | "pending": the provider request in flight
  narrChannels,        \* every narrator Howl created so far
  narratorRef,
  lastOp               \* the narrator-side handler that ran last

bgmVars == <<currentBgmCategory, bgmRef, queueRef, queueIndexRef, channels>>
vars == <<currentBgmCategory, bgmRef, queueRef, queueIndexRef, channels,
          isSpeaking, isLoadingTTS, apiKey, narratorText, fetch,
          narrChannels, narratorRef, lastOp>>

\* ---------------------------------------------------------------- helpers
\* mutant: the swap writes one side only and loses an element
SwapLossy(arr, i, j) == [arr EXCEPT ![i] = arr[j]]

Swap(arr, i, j) == [arr EXCEPT ![i] = arr[j], ![j] = arr[i]]

\* Fisher-Yates, i running from Len down to 2 (1-based), j drawn from 1..i.
RECURSIVE ShuffleFrom(_, _)
ShuffleFrom(arr, i) ==
  IF i <= 1 THEN {arr}
  ELSE UNION {ShuffleFrom(Swap(arr, i, j), i - 1) : j \in 1..i}

shuffleArray(array) == ShuffleFrom(array, Len(array))

\* mutant: returns whenever a category is already rendered as playing
PlayGuardStrict(closureCat, category) == closureCat = NoCat

\* if (currentBgmCategory && currentBgmCategory !== category) return;
\* closureCat is the category of the render that defined the function.
PlayGuard(closureCat, category) ==
  ~(closureCat # NoCat /\ closureCat # category)

\* new Howl({src, volume: 0, onend}); play(); fade(0, 1.0, 2000)
\* cat/cap: the category argument and the render category the onend closure holds
NewSound(closureCat, category, url) ==
  [cat |-> category, cap |-> closureCat, src |-> url, st |-> "playing",
   cb |-> FALSE, from |-> 0, tgt |-> FullVol]

\* drop what is unreachable for the program (see the header)
Norm(ch, active) ==
  LET gone == ch.st \in {"fading", "released"} \/ (ch.st = "ended" /\ ~active)
  IN [ch EXCEPT !.cat = IF gone /\ ~ch.cb THEN NoCat ELSE @,
                !.cap = IF gone /\ ~ch.cb THEN NoCat ELSE @,
                !.from = IF gone THEN 0 ELSE @,
                !.tgt = IF gone THEN 0 ELSE @,
                !.src = IF ch.st = "released" THEN "" ELSE @]

NormAll(chs, ref) == [k \in 1..Len(chs) |-> Norm(chs[k], k = ref)]

\* playTrackInQueue seen as a function of the refs: the channel list after it
PlayTrackChannels(chs, closureCat, category, q, idx) ==
  IF PlayGuard(closureCat, category)
  THEN Append(chs, NewSound(closureCat, category, q[idx + 1]))
  ELSE chs

PlayTrackRef(chs, ref, closureCat, category) ==
  IF PlayGuard(closureCat, category) THEN Len(chs) + 1 ELSE ref

\* stopBgm: off('end'), fade to 0 over 1000ms, release timer, ref = null
StopBgmChannels(chs, ref) ==
  IF ref # NoCh
  THEN [chs EXCEPT ![ref].tgt = 0, ![ref].st = "fading"]
  ELSE chs

\* mutant: the target stays at the ducked value
DuckTargetStuck(speaking) == DuckVol

DuckTarget(speaking) == IF speaking THEN DuckVol ELSE FullVol

\* the levels volume() can return while the fade (from, tgt) is in flight
Between(a, b) == {v \in VolLevels : (a <= v /\ v <= b) \/ (b <= v /\ v <= a)}

\* the ducking effect body: fade(volume(), targetVol, 500).  elapsed: whether
\* time has passed since the last fade was issued on the channel (it has not
\* when the effect follows the handler that created the channel).
DuckEffect(chs, ref, speaking, elapsed) ==
  IF ref = NoCh THEN {chs}
  ELSE {[chs EXCEPT ![ref].from = v, ![ref].tgt = DuckTarget(speaking)] :
          v \in IF elapsed THEN Between(chs[ref].from, chs[ref].tgt)
                ELSE {chs[ref].from}}

\* the effect runs after a render in which a dependency changed
RunEffect(chs, ref, speaking, changed, elapsed) ==
  IF changed THEN DuckEffect(chs, ref, speaking, elapsed) ELSE {chs}

Live(ch) == ch.st = "playing"
LiveSet(chs) == {i \in 1..Len(chs) : Live(chs[i])}

\* ------------------------------------------------------------------- Init
Init ==
  /\ currentBgmCategory = NoCat
  /\ bgmRef = NoCh
  /\ queueRef = <<>>
  /\ queueIndexRef = 0
  /\ channels = <<>>
  /\ isSpeaking = FALSE
  /\ isLoadingTTS = FALSE
  /\ apiKey = ""
  /\ narratorText = ""
  /\ fetch = "none"
  /\ narrChannels = <<>>
  /\ narratorRef = NoCh
  /\ lastOp = "init"

\* ---------------------------------------------------------------- actions
startPlaylistUpTo(category, max) ==
  LET stopped == StopBgmChannels(channels, bgmRef)
      tracks == ASSETS(category)
  IN /\ UNCHANGED <<lastOp, isSpeaking, isLoadingTTS, apiKey, narratorText, fetch,
                    narrChannels, narratorRef>>
     /\ IF Len(tracks) = 0
        THEN /\ channels' = NormAll(stopped, NoCh)
             /\ bgmRef' = NoCh
             /\ UNCHANGED <<currentBgmCategory, queueRef, queueIndexRef>>
        ELSE /\ Len(channels) < max
             /\ currentBgmCategory' = category
             /\ \E q \in shuffleArray(tracks) :
                  /\ queueRef' = q
                  /\ queueIndexRef' = 0
                  /\ bgmRef' = PlayTrackRef(stopped, NoCh, currentBgmCategory, category)
                  /\ \E chs \in RunEffect(PlayTrackChannels(stopped, currentBgmCategory,
                                                            category, q, 0),
                                          bgmRef', isSpeaking,
                                          category # currentBgmCategory, FALSE) :
                       channels' = NormAll(chs, bgmRef')

startPlaylist(category) == startPlaylistUpTo(category, MaxChannels)

\* mutant: stopBgm() without setCurrentBgmCategory(null)
handleStopClickKeepCategory ==
  /\ channels' = NormAll(StopBgmChannels(channels, bgmRef), NoCh)
  /\ bgmRef' = NoCh
  /\ UNCHANGED <<currentBgmCategory, queueRef, queueIndexRef, isSpeaking,
                 isLoadingTTS, apiKey, narratorText, fetch, narrChannels,
                 narratorRef, lastOp>>

handleStopClick ==
  /\ channels' = NormAll(StopBgmChannels(channels, bgmRef), NoCh)
  /\ bgmRef' = NoCh
  /\ currentBgmCategory' = NoCat
  /\ UNCHANGED <<queueRef, queueIndexRef, isSpeaking, isLoadingTTS, apiKey,
                 narratorText, fetch, narrChannels, narratorRef, lastOp>>

\* natural end of playback: Howler queues the 'end' listeners still registered
TrackEnd(i) ==
  /\ i \in 1..Len(channels)
  /\ channels[i].st = "playing"
  /\ channels' = NormAll([channels EXCEPT ![i].st = "ended", ![i].cb = TRUE], bgmRef)
  /\ UNCHANGED <<currentBgmCategory, bgmRef, queueRef, queueIndexRef,
                 isSpeaking, isLoadingTTS, apiKey, narratorText, fetch,
                 narrChannels, narratorRef, lastOp>>

\* mutant: the wrap test is off by one (>= length - 1)
NextIndexEarlyWrap(idx, len) == IF idx + 1 >= len - 1 THEN 0 ELSE idx + 1

NextIndex(idx, len) == IF idx + 1 >= len THEN 0 ELSE idx + 1

\* mutant: the queue is shuffled again when the cursor wraps
onendReshuffle(i, max) ==
  /\ i \in 1..Len(channels)
  /\ channels[i].cb
  /\ Len(channels) < max
  /\ LET taken == [channels EXCEPT ![i].cb = FALSE]
         idx == NextIndex(queueIndexRef, Len(queueRef))
     IN /\ queueIndexRef' = idx
        /\ queueRef' \in (IF idx = 0 THEN shuffleArray(queueRef) ELSE {queueRef})
        /\ bgmRef' = PlayTrackRef(taken, bgmRef, channels[i].cap, channels[i].cat)
        /\ channels' = NormAll(PlayTrackChannels(taken, channels[i].cap,
                                                 channels[i].cat, queueRef', idx),
                               bgmRef')
  /\ UNCHANGED <<currentBgmCategory, isSpeaking, isLoadingTTS, apiKey,
                 narratorText, fetch, narrChannels, narratorRef, lastOp>>

\* the onend callback of channel i
onendUpTo(i, max) ==
  /\ i \in 1..Len(channels)
  /\ channels[i].cb
  /\ Len(channels) < max
  /\ LET taken == [channels EXCEPT ![i].cb = FALSE]
         idx == NextIndex(queueIndexRef, Len(queueRef))
     IN /\ queueIndexRef' = idx
        /\ bgmRef' = PlayTrackRef(taken, bgmRef, channels[i].cap, channels[i].cat)
        /\ channels' = NormAll(PlayTrackChannels(taken, channels[i].cap,
                                                 channels[i].cat, queueRef, idx),
                               bgmRef')
  /\ UNCHANGED <<currentBgmCategory, queueRef, isSpeaking, isLoadingTTS, apiKey,
                 narratorText, fetch, narrChannels, narratorRef, lastOp>>

onend(i) == onendUpTo(i, MaxChannels)

\* setTimeout(() => { oldSound.stop(); oldSound.unload(); }, 1000)
ReleaseTimer(i) ==
  /\ i \in 1..Len(channels)
  /\ channels[i].st = "fading"
  /\ channels' = NormAll([channels EXCEPT ![i].st = "released"], bgmRef)
  /\ UNCHANGED <<currentBgmCategory, bgmRef, queueRef, queueIndexRef,
                 isSpeaking, isLoadingTTS, apiKey, narratorText, fetch,
                 narrChannels, narratorRef, lastOp>>

\* ---------------------------------------------------------------- narrator
saveKey(val) ==
  /\ val # apiKey
  /\ apiKey' = val
  /\ lastOp' = "saveKey"
  /\ UNCHANGED <<bgmVars, isSpeaking, isLoadingTTS, narratorText, fetch,
                 narrChannels, narratorRef>>

setNarratorText(val) ==
  /\ val # narratorText
  /\ narratorText' = val
  /\ lastOp' = "setText"
  /\ UNCHANGED <<bgmVars, isSpeaking, isLoadingTTS, apiKey, fetch,
                 narrChannels, narratorRef>>

\* mutant: the empty-text check is missing
handleNarrateNoTextCheck ==
  /\ ~(isLoadingTTS \/ isSpeaking)
  /\ lastOp' = "narrate"
  /\ IF apiKey = ""
     THEN UNCHANGED <<isLoadingTTS, fetch>>
     ELSE /\ isLoadingTTS' = TRUE
          /\ fetch' = "pending"
  /\ UNCHANGED <<bgmVars, isSpeaking, apiKey, narratorText, narrChannels, narratorRef>>

\* the Narrate button is disabled while isLoadingTTS || isSpeaking
handleNarrate ==
  /\ ~(isLoadingTTS \/ isSpeaking)
  /\ lastOp' = "narrate"
  /\ IF apiKey = "" \/ narratorText = ""
     THEN UNCHANGED <<isLoadingTTS, fetch>>
     ELSE /\ isLoadingTTS' = TRUE
          /\ fetch' = "pending"
  /\ UNCHANGED <<bgmVars, isSpeaking, apiKey, narratorText, narrChannels, narratorRef>>

\* mutant: the previous narrator Howl is not unloaded
FetchOkNoUnload ==
  /\ fetch = "pending"
  /\ Len(narrChannels) < MaxNarr
  /\ lastOp' = "fetchOk"
  /\ fetch' = "none"
  /\ narrChannels' = Append(narrChannels, [st |-> "loading"])
  /\ narratorRef' = Len(narrChannels) + 1
  /\ isLoadingTTS' = FALSE
  /\ UNCHANGED <<bgmVars, isSpeaking, apiKey, narratorText>>

\* the provider answered with audioContent: playAudioFromBase64, then finally
FetchOk ==
  /\ fetch = "pending"
  /\ Len(narrChannels) < MaxNarr
  /\ lastOp' = "fetchOk"
  /\ fetch' = "none"
  /\ LET unloaded == IF narratorRef # NoCh
                     THEN [narrChannels EXCEPT ![narratorRef].st = "unloaded"]
                     ELSE narrChannels
     IN /\ narrChannels' = Append(unloaded, [st |-> "loading"])
        /\ narratorRef' = Len(narrChannels) + 1
  /\ isLoadingTTS' = FALSE
  /\ UNCHANGED <<bgmVars, isSpeaking, apiKey, narratorText>>

\* mutant: the finally block does not clear the loading flag
FetchFailKeepsLoading ==
  /\ fetch = "pending"
  /\ lastOp' = "fetchFail"
  /\ fetch' = "none"
  /\ UNCHANGED <<bgmVars, isSpeaking, isLoadingTTS, apiKey, narratorText,
                 narrChannels, narratorRef>>

\* fetch rejected, data.error set, or atob threw: catch, then finally
FetchFail ==
  /\ fetch = "pending"
  /\ lastOp' = "fetchFail"
  /\ fetch' = "none"
  /\ isLoadingTTS' = FALSE
  /\ UNCHANGED <<bgmVars, isSpeaking, apiKey, narratorText, narrChannels, narratorRef>>

\* onplay: () => setIsSpeaking(true), then the ducking effect
NarratorPlay(i) ==
  /\ i \in 1..Len(narrChannels)
  /\ narrChannels[i].st = "loading"
  /\ lastOp' = "narratorPlay"
  /\ narrChannels' = [narrChannels EXCEPT ![i].st = "playing"]
  /\ isSpeaking' = TRUE
  /\ channels' \in RunEffect(channels, bgmRef, TRUE, isSpeaking # TRUE, TRUE)
  /\ UNCHANGED <<currentBgmCategory, bgmRef, queueRef, queueIndexRef,
                 isLoadingTTS, apiKey, narratorText, fetch, narratorRef>>

\* onend: () => setIsSpeaking(false), then the ducking effect
NarratorEnd(i) ==
  /\ i \in 1..Len(narrChannels)
  /\ narrChannels[i].st = "playing"
  /\ lastOp' = "narratorEnd"
  /\ narrChannels' = [narrChannels EXCEPT ![i].st = "ended"]
  /\ isSpeaking' = FALSE
  /\ channels' \in RunEffect(channels, bgmRef, FALSE, isSpeaking # FALSE, TRUE)
  /\ UNCHANGED <<currentBgmCategory, bgmRef, queueRef, queueIndexRef,
                 isLoadingTTS, apiKey, narratorText, fetch, narratorRef>>

\* the blob does not load or play: the Howl is created without onloaderror or
\* onplayerror, so no handler runs and neither onplay nor onend ever fires
NarratorLoadError(i) ==
  /\ i \in 1..Len(narrChannels)
  /\ narrChannels[i].st = "loading"
  /\ narrChannels' = [narrChannels EXCEPT ![i].st = "failed"]
  /\ UNCHANGED <<bgmVars, isSpeaking, isLoadingTTS, apiKey, narratorText, fetch,
                 narratorRef, lastOp>>

\* ------------------------------------------------------------------- Next
\* the playlist sequencer on its own
NextBgm ==
  \/ \E c \in Categories : startPlaylist(c)
  \/ handleStopClick
  \/ \E i \in 1..MaxChannels : TrackEnd(i)
  \/ \E i \in 1..MaxChannels : onend(i)
  \/ \E i \in 1..MaxChannels : ReleaseTimer(i)

SpecBgm == Init /\ [][NextBgm]_vars

\* the narrator on its own
NextNarr ==
  \/ \E v \in Keys : saveKey(v)
  \/ \E v \in Texts : setNarratorText(v)
  \/ handleNarrate
  \/ FetchOk
  \/ FetchFail
  \/ \E i \in 1..MaxNarr : NarratorPlay(i)
  \/ \E i \in 1..MaxNarr : NarratorEnd(i)
  \/ \E i \in 1..MaxNarr : NarratorLoadError(i)

SpecNarr == Init /\ [][NextNarr]_vars

\* the audio backend makes progress: a sound that is playing reaches its end,
\* a sound that is loading starts to play or fails.  Nothing is assumed about
\* the user or about the provider call.
SpecNarrFair ==
  /\ Init /\ [][NextNarr]_vars
  /\ \A i \in 1..MaxNarr :
       /\ WF_vars(NarratorEnd(i))
       /\ WF_vars(NarratorPlay(i) \/ NarratorLoadError(i))

\* the sequencer and the narrator together: the ducking effect
NextDuck ==
  \/ \E c \in Categories : startPlaylistUpTo(c, MaxDuckChannels)
  \/ handleStopClick
  \/ \E i \in 1..MaxDuckChannels : TrackEnd(i)
  \/ \E i \in 1..MaxDuckChannels : onendUpTo(i, MaxDuckChannels)
  \/ \E i \in 1..MaxDuckChannels : ReleaseTimer(i)
  \/ saveKey("key")
  \/ setNarratorText("text")
  \/ handleNarrate
  \/ FetchOk
  \/ \E i \in 1..MaxNarr : NarratorPlay(i)
  \/ \E i \in 1..MaxNarr : NarratorEnd(i)

SpecDuck == Init /\ [][NextDuck]_vars

TypeOK ==
  /\ currentBgmCategory \in Known \cup {NoCat}
  /\ bgmRef \in 0..Len(channels)
  /\ queueIndexRef \in 0..2
  /\ Len(channels) <= MaxChannels
  /\ \A i \in 1..Len(channels) : channels[i].from \in VolLevels

\* ----------------------------------------------------------------- claims
IsPermutation(a, b) ==
  /\ Len(a) = Len(b)
  /\ \A x \in {a[k] : k \in 1..Len(a)} \cup {b[k] : k \in 1..Len(b)} :
       Cardinality({k \in 1..Len(a) : a[k] = x}) =
       Cardinality({k \in 1..Len(b) : b[k] = x})

\* a completion callback is queued for a channel that stopBgm already handed
\* to the fade-out-and-release step
Stale(i) == channels[i].cb /\ channels[i].st \in {"fading", "released"}

\* C1: in every reachable state at most one music channel is live (started,
\* not ended, not handed to the fade-out-and-release step).
C1_AtMostOneLive == Cardinality(LiveSet(channels)) <= 1

\* C2: after startPlaylist(A) then startPlaylist(B) for another category B,
\* the completion callback of A's superseded channel, when delivered, neither
\* changes the queue cursor nor creates a music channel.
C2_StaleCompletionInert ==
  [][\A i \in 1..MaxChannels :
       (onend(i) /\ Stale(i) /\ currentBgmCategory # NoCat
          /\ channels[i].cat # currentBgmCategory)
         => (queueIndexRef' = queueIndexRef /\ Len(channels') = Len(channels))]_vars

\* C3: startPlaylist(c) for a known category c other than the current one
\* (Idle or another category) leaves currentBgmCategory = c and exactly one
\* live channel, the new one, playing the track at cursor 0 of the new queue.
C3_StartYieldsOneLive ==
  [][\A c \in Known :
       (startPlaylist(c) /\ currentBgmCategory # c)
         => /\ currentBgmCategory' = c
            /\ bgmRef' # NoCh
            /\ bgmRef' = Len(channels) + 1
            /\ LiveSet(channels') = {bgmRef'}
            /\ channels'[bgmRef'].src = queueRef'[1]]_vars

\* C4: once stopMusic() left the sequencer Idle with no active channel, no
\* completion callback moves the cursor or creates a channel.
C4_IdleAfterStop ==
  [][(currentBgmCategory = NoCat /\ bgmRef = NoCh /\ \E i \in 1..MaxChannels : onend(i))
       => (bgmRef' = NoCh /\ queueIndexRef' = queueIndexRef
           /\ Len(channels') = Len(channels))]_vars

\* C5: a completion callback never changes the queue, and the channel it
\* creates plays the queue's track at the new cursor: every pass through the
\* queue plays the same track at the same cursor.
C5_LoopKeepsOrder ==
  [][\A i \in 1..MaxChannels :
       onend(i) => /\ queueRef' = queueRef
                   /\ Len(channels') > Len(channels)
                        => channels'[Len(channels')].src = queueRef[queueIndexRef' + 1]]_vars

\* the second pass of a two-track queue has begun: two channels ended and were
\* advanced by their callbacks, the third plays cursor 0 again
C5_Witness ==
  /\ Len(channels) = 3 /\ bgmRef = 3 /\ Len(queueRef) = 2 /\ queueIndexRef = 0
  /\ channels[1].st = "ended" /\ channels[2].st = "ended"
  /\ channels[1].src = queueRef[1] /\ channels[2].src = queueRef[2]
  /\ channels[3].st = "playing" /\ channels[3].src = queueRef[1]

\* C6: startPlaylist with an unknown category while a channel is active
\* changes nothing of the sequencer.
C6_UnknownStartNoOp ==
  [][(startPlaylist("unknown") /\ bgmRef # NoCh) => UNCHANGED bgmVars]_vars

\* C7: startPlaylist(c) while c is the current category hands the old channel
\* to fade-out, generates a queue that is a permutation of c's tracks, resets
\* the cursor to 0 and creates a new live channel for the track at cursor 0.
C7_RestartSameCategory ==
  [][\A c \in Known :
       (startPlaylist(c) /\ currentBgmCategory = c)
         => /\ currentBgmCategory' = c
            /\ bgmRef # NoCh => channels'[bgmRef].st = "fading"
            /\ IsPermutation(queueRef', ASSETS(c))
            /\ queueIndexRef' = 0
            /\ bgmRef' = Len(channels) + 1
            /\ Len(channels') = Len(channels) + 1
            /\ Live(channels'[bgmRef'])
            /\ channels'[bgmRef'].src = queueRef'[1]]_vars

\* battle was restarted while its second track (cursor 1) was the active one
C7_Witness ==
  /\ Len(channels) = 3 /\ bgmRef = 3 /\ currentBgmCategory = "battle"
  /\ channels[1].st = "ended" /\ channels[2].st = "fading"
  /\ channels[1].src # channels[2].src
  /\ channels[3].cat = "battle" /\ channels[3].cap = "battle"
  /\ Live(channels[3]) /\ queueIndexRef = 0

\* C8: every stopMusic() leaves currentBgmCategory none and no active
\* channel, and a stopMusic() in the state a stopMusic() leaves changes nothing.
C8_StopIdempotent ==
  [][handleStopClick
       => /\ currentBgmCategory' = NoCat
          /\ bgmRef' = NoCh
          /\ (currentBgmCategory = NoCat /\ bgmRef = NoCh) => UNCHANGED vars]_vars

\* stopMusic() has stopped an active channel; a second call is enabled here
C8_Witness ==
  /\ currentBgmCategory = NoCat /\ bgmRef = NoCh
  /\ \E i \in 1..Len(channels) : channels[i].st = "fading"
  /\ ENABLED handleStopClick

\* C9: when SpeakingFlag goes from true to false with an active music
\* channel, the fade issued on that channel targets 1.0, whatever volume it
\* starts from.
C9_DuckRoundTrip ==
  [][\A i \in 1..MaxNarr :
       (NarratorEnd(i) /\ isSpeaking /\ bgmRef # NoCh)
         => channels'[bgmRef].tgt = FullVol]_vars

\* the un-duck fade started from an intermediate volume (between 0.2 and 1.0)
C9_Witness ==
  /\ ~isSpeaking /\ bgmRef # NoCh
  /\ \E i \in 1..Len(narrChannels) : narrChannels[i].st = "ended"
  /\ channels[bgmRef].from = 6 /\ channels[bgmRef].tgt = FullVol

\* C10: narrate with no credential or with empty text makes no provider call,
\* does not set the loading flag and leaves SpeakingFlag and the narration
\* channel unchanged.
C10_NarrateRejected ==
  [][(handleNarrate /\ (apiKey = "" \/ narratorText = ""))
       => UNCHANGED <<fetch, isLoadingTTS, isSpeaking, narrChannels, narratorRef>>]_vars

\* narrate was the last narrator-side handler and it was rejected
C10_Witness ==
  /\ lastOp = "narrate" /\ (apiKey = "" \/ narratorText = "")
  /\ fetch = "none" /\ ~isLoadingTTS

C12_AdvanceKeepsDucking ==
  [][\A i \in 1..MaxDuckChannels :
       (onendUpTo(i, MaxDuckChannels) /\ isSpeaking /\ Len(channels') > Len(channels))
         => channels'[Len(channels')].tgt = DuckTarget(isSpeaking)]_vars

\* C13: the channel startPlaylist creates while SpeakingFlag is true ends the
\* step with the ducked value 0.2 as its volume target.
C13_StartReevaluatesDucking ==
  [][\A c \in Known :
       (startPlaylistUpTo(c, MaxDuckChannels) /\ isSpeaking /\ bgmRef' # NoCh)
         => channels'[bgmRef'].tgt = DuckVol]_vars

\* C14: a music channel that is no longer the active one has been handed to
\* the release step (its stop-and-unload timer is pending or has run), which
\* is the only way it is ever released.
C14_ReplacedIsReleased ==
  \A i \in 1..Len(channels) :
    i # bgmRef => channels[i].st \in {"fading", "released"}

\* C15: while a playlist is active the cursor is within the queue; a
\* completion at the last position sets it to 0 and any other completion
\* adds one.
C15_CursorInRange ==
  /\ [](currentBgmCategory # NoCat
          => (0 <= queueIndexRef /\ queueIndexRef < Len(queueRef)))
  /\ [][\A i \in 1..MaxChannels :
          onend(i) => queueIndexRef' = IF queueIndexRef = Len(queueRef) - 1
                                       THEN 0 ELSE queueIndexRef + 1]_vars

\* a two-track playlist is active and its cursor went 0, 1 and back to 0
C15_Witness ==
  /\ currentBgmCategory # NoCat /\ Len(queueRef) = 2 /\ queueIndexRef = 0
  /\ Len(channels) = 3 /\ bgmRef = 3
  /\ \A i \in 1..2 : channels[i].st = "ended" /\ ~channels[i].cb

C18_StopClearsQueue ==
  [][handleStopClick
       => /\ currentBgmCategory' = NoCat /\ bgmRef' = NoCh
          /\ queueRef' = <<>> /\ queueIndexRef' = 0]_vars

\* C19: currentBgmCategory is none exactly when there is no active channel.
C19_IdleIffNoChannel ==
  (currentBgmCategory = NoCat) <=> (bgmRef = NoCh)

Unreleased(chs) == {i \in 1..Len(chs) : chs[i].st # "unloaded"}

\* C17: when the provider call succeeds the previous narration channel is
\* unloaded before the new one is created, so at most one narration channel
\* is unreleased at any time; the loading flag is cleared; SpeakingFlag is
\* true once the channel starts playing and false once it completes.
C17_NarrationLifecycle ==
  /\ [](Cardinality(Unreleased(narrChannels)) <= 1)
  /\ [][FetchOk => /\ narratorRef # NoCh
                        => narrChannels'[narratorRef].st = "unloaded"
                    /\ narratorRef' = Len(narrChannels) + 1
                    /\ narrChannels'[narratorRef'].st = "loading"
                    /\ ~isLoadingTTS']_vars
  /\ [][\A i \in 1..MaxNarr : NarratorPlay(i) => isSpeaking']_vars
  /\ [][\A i \in 1..MaxNarr : NarratorEnd(i) => ~isSpeaking']_vars

\* a second request superseded the first channel, played and completed
C17_Witness ==
  /\ Len(narrChannels) = 2 /\ narratorRef = 2
  /\ narrChannels[1].st = "unloaded" /\ narrChannels[2].st = "ended"
  /\ ~isSpeaking /\ ~isLoadingTTS

\* C20: whenever SpeakingFlag is true it eventually becomes false again.
C20_SpeakingEventuallyClears == isSpeaking ~> ~isSpeaking
====
